---- MODULE Spec2Model ----
(***************************************************************************)
(* PlaywriterRelay (playwriter-nat-relay): many p2p clients multiplexed    *)
(* onto one shared `playwriter serve` child process.                       *)
(*                                                                         *)
(* The state is the relay object's fields, one clientInfo per connection,  *)
(* and the two ends of the serve process: what has been handed to its      *)
(* stdin and what each client socket has been sent.  A payload or a stdout *)
(* chunk is the sequence of JSON messages its text holds; the relay itself *)
(* only ever scans that text with regular expressions.                     *)
(***************************************************************************)
EXTENDS Integers, Sequences, FiniteSets, TLC

\* ------------------------------------------------------------------ bounds
\* Client 'data' events over a run.
MaxSent == 2
\* Serve-process stdout 'data' events over a run.
MaxOut == 2

\* Connections (clientId = crypto.randomBytes(8), distinct per connection).
Clients == {"A", "B"}
\* Numeric request identifiers clients and the backend use.
NumIds == {1, 2}
\* String request identifiers: [idk |-> "str", idv |-> n] is the string "s<n>".
StrIds == {1}
\* pageId values the backend hands out.
Pages == {"p1", "p2"}

NoOwner == "none"
NoPage == ""

\* --------------------------------------------------------------- messages
\* A JSON-RPC request sent by a client: its "id" member (a number, a string)
\* is all the relay can see of it.
Request(idk, idv) == [idk |-> idk, idv |-> idv, method |-> "request", page |-> NoPage]

\* The bytes of one client 'data' event: one request, or two that the
\* transport delivered together.
ClientChunks ==
    {<<Request("num", i)>> : i \in NumIds}
    \cup {<<Request("str", s)>> : s \in StrIds}
    \cup {<<Request("num", 1), Request("num", 2)>>}

\* A message on the serve process's stdout.  cp: its text contains the
\* substring createPage; res: it contains "result"; page: its "pageId".
Response(idk, idv) == [idk |-> idk, idv |-> idv, cp |-> FALSE, res |-> TRUE, page |-> NoPage]

\* A line with no "id" (a log line, a notification).
LogLine == [idk |-> "none", idv |-> 0, cp |-> FALSE, res |-> FALSE, page |-> NoPage]

\* A response that reports a created page; cp: it also names createPage.
Created(idv, p, cp) == [idk |-> "num", idv |-> idv, cp |-> cp, res |-> TRUE, page |-> p]

\* The bytes of one stdout 'data' event: one message, or two read from the
\* pipe together.
ServeChunks ==
    {<<Response("num", i)>> : i \in NumIds}
    \cup {<<Response("str", s)>> : s \in StrIds}
    \cup {<<LogLine>>}
    \cup {<<Created(1, "p1", TRUE)>>, <<Created(2, "p2", TRUE)>>, <<Created(1, "p1", FALSE)>>}
    \cup {<<Response("num", 1), Response("num", 2)>>, <<Response("num", 1), LogLine>>}

\* What the first 'data' event of a connection holds: a credential (the
\* configured token or another string), whether white space other than the
\* line's newline surrounds it, and whether payload bytes follow the line in
\* the same event.
FirstData == [tok : {"good", "bad"}, pad : BOOLEAN, rest : BOOLEAN]

\* The first 'data' event connectClient produces when the token line travels
\* alone: token + newline.
token == [tok |-> "good", pad |-> FALSE, rest |-> FALSE]

\* ------------------------------------------------------------------ state
VARIABLES
    serveProcess,      \* "null" | "running"                      (this.serveProcess)
    stdin,             \* "null" | "pipe": serveProcess.stdin
    serveExit,         \* the child process: has it exited, and the sessions that
                       \* were active when it did
    writeQueue,        \* Seq of [data, by, n]                    (this.writeQueue)
    isWriting,         \* BOOLEAN                                 (this.isWriting)
    inflight,          \* Seq of items whose stdin.write callback is pending
    handed,            \* Seq of items passed to stdin.write, in call order
    history,           \* Seq of every item pushed by writeToServe, in push order
    promise,           \* promise[n]: "pending" | "resolved" | "rejected"
    clients,           \* keys of this.clients
    conn,              \* per connection: "none" | "rejected" | "active" | "closed"
    closed,            \* clientInfo.closed
    pages,             \* clientInfo.pages (a Set: insertion-ordered, no repeats)
    messageIds,        \* clientInfo.messageIds
    messageIdMap,      \* this.messageIdMap: id -> clientId
    pageOwnership,     \* this.pageOwnership: pageId -> clientId
    clientMessageIds,  \* keys of this.clientMessageIds
    nextMessageId,     \* this.nextMessageId
    listeners,         \* serveProcess.stdout 'data' listeners (outputHandler of ...)
    sockOut,           \* per connection: chunks written to its socket
    signals,           \* per connection: how many of 'end' / 'error' have fired
    outCount,          \* stdout 'data' events so far
    created,           \* <<page, client>>: the backend answered a request it was
                       \* handed from client with a creation response for page
    recorded           \* <<id, client>>: messageIdMap.set(id, client) has run

\* The reflector server (src/reflector/src/index.ts), a second program.
VARIABLES
    ClientConnections,      \* Map clientId -> [subdomain, authenticated]
    SubdomainToConnection,  \* Map subdomain -> clientId
    RemoteClients,          \* Map clientId -> subdomain (from /register)
    readyState,             \* per WebSocket: "none" | "open" | "closing" | "closed"
    received,               \* per WebSocket: what its peer was sent, in order
    msgCount,               \* 'message' events so far
    revalidationFailed,     \* history: connections whose credential failed
                            \* validation while they were authenticated
    envAuthSecret,          \* process.env.AUTH_SECRET: "unread" | "unset" | a secret
    issued                  \* history: what GET /token has returned, per subdomain

relayVars == <<serveProcess, serveExit, stdin, writeQueue, isWriting, inflight, handed, history,
          promise, clients, conn, closed, pages, messageIds, messageIdMap,
          pageOwnership, clientMessageIds, nextMessageId, listeners, sockOut,
          signals, outCount, created, recorded>>

reflectorVars == <<ClientConnections, SubdomainToConnection, RemoteClients, readyState,
                   received, msgCount, revalidationFailed, envAuthSecret, issued>>

\* The Coolify MCP server (src/coolify-mcp/index.js), a third program.
VARIABLES
    apiToken,       \* CoolifyAPIClient.apiToken of the running process
    configFile,     \* the apiToken stored in CONFIG_FILE, "absent" without the file
    requests,       \* history: the bearer token of every HTTPS request sent
    lastResult,     \* what the CallTool handler returned last
    lastSet,        \* history: token of the last set_api_token that returned success
    callCount       \* CallTool requests handled so far

coolifyVars == <<apiToken, configFile, requests, lastResult, lastSet, callCount>>

vars == <<relayVars, reflectorVars, coolifyVars>>

\* CallTool requests handled
MaxCalls == 3

\* null or undefined
NoApiToken == "null"

\* Tokens a caller may pass to set_api_token: two proper ones, the empty
\* string, and none (args.token undefined).
ApiTokens == {"t1", "t2", "", NoApiToken}

\* if (this.apiToken): null, undefined and '' are falsy.
Truthy(tok) == tok \notin {NoApiToken, ""}

NoResult == [isError |-> FALSE, text |-> "none"]

CoolifyInit ==
    /\ configFile = "absent"
    /\ apiToken = NoApiToken
    /\ requests = <<>>
    /\ lastResult = NoResult
    /\ lastSet = "none"
    /\ callCount = 0

\* 'message' events the reflector handles
MaxMessages == 4
\* WebSocket connections (each gets its own generateClientId() value)
Conns == {"x", "y", "z"}
\* client ids handed out by /register
RegIds == {"r1"}
Subdomains == {"s", "t"}

\* digest('hex') of a sha256: 64 characters
TokenLength == 64

\* A token that is absent or empty (falsy).
NoToken == [sub |-> "", secret |-> FALSE, len |-> 0]

\* As expectedToken, with a digest that leaves the subdomain out.
expectedToken_unbound(subdomain) == [sub |-> "s", secret |-> TRUE, len |-> TokenLength]

\* createHash('sha256').update(`${subdomain}:${AUTH_SECRET}`).digest('hex')
expectedToken(subdomain) == [sub |-> subdomain, secret |-> TRUE, len |-> TokenLength]

\* Tokens a peer may present: the one of each subdomain, a wrong one of the
\* right length, and a wrong one of another length.
Tokens ==
    {expectedToken(sd) : sd \in Subdomains}
    \cup {[sub |-> "s", secret |-> FALSE, len |-> TokenLength],
          [sub |-> "s", secret |-> FALSE, len |-> TokenLength - 1]}

\* WebSocket frames a peer may send: auth with or without a token, ping, any
\* other JSON object, and text that is not JSON.
Messages ==
    {[type |-> "auth", token |-> t] : t \in Tokens \cup {NoToken}}
    \cup {[type |-> ty, token |-> NoToken] : ty \in {"ping", "data", "raw"}}

\* What the reflector itself sends on a socket.
Reply(ty) == [from |-> "reflector", msg |-> [type |-> ty, token |-> NoToken]]

ReflectorInit ==
    /\ ClientConnections = <<>>
    /\ SubdomainToConnection = <<>>
    /\ RemoteClients = <<>>
    /\ readyState = [c \in Conns |-> "none"]
    /\ received = [c \in Conns |-> <<>>]
    /\ msgCount = 0
    /\ revalidationFailed = {}
    /\ envAuthSecret = "unread"
    /\ issued = {}

\* -------------------------------------------------------------- constructor
FirstMessageId == 1

Init ==
    /\ serveProcess = "null"
    /\ stdin = "null"
    /\ serveExit = [done |-> FALSE, active |-> {}]
    /\ writeQueue = <<>>
    /\ isWriting = FALSE
    /\ inflight = <<>>
    /\ handed = <<>>
    /\ history = <<>>
    /\ promise = <<>>
    /\ clients = {}
    /\ conn = [c \in Clients |-> "none"]
    /\ closed = [c \in Clients |-> FALSE]
    /\ pages = [c \in Clients |-> <<>>]
    /\ messageIds = [c \in Clients |-> {}]
    /\ messageIdMap = [i \in NumIds |-> NoOwner]
    /\ pageOwnership = [p \in Pages |-> NoOwner]
    /\ clientMessageIds = {}
    /\ nextMessageId = FirstMessageId
    /\ listeners = <<>>
    /\ sockOut = [c \in Clients |-> <<>>]
    /\ signals = [c \in Clients |-> 0]
    /\ outCount = 0
    /\ created = {}
    /\ recorded = {}
    /\ ReflectorInit
    /\ CoolifyInit

\* ------------------------------------------------------------ write queue
\* The serializer's part of the state, threaded through the operators below.
W == [q |-> writeQueue, isW |-> isWriting, infl |-> inflight, hand |-> handed,
      hist |-> history, prom |-> promise]

SetW(w) ==
    /\ writeQueue' = w.q
    /\ isWriting' = w.isW
    /\ inflight' = w.infl
    /\ handed' = w.hand
    /\ history' = w.hist
    /\ promise' = w.prom

\* processWriteQueue passes its guard.
CanStart(w) == ~w.isW /\ w.q # <<>> /\ serveProcess # "null"

\* serveProcess.stdin.write(...) throws: stdin is null, the call is a
\* TypeError raised after isWriting was set and the item shifted.
WriteThrows(w) == CanStart(w) /\ stdin = "null"

\* As processWriteQueue, taking the newest item (writeQueue.pop()) instead of the
\* oldest.
processWriteQueue_pop(w) ==
    IF ~CanStart(w) THEN w
    ELSE LET item == w.q[Len(w.q)] IN
         IF stdin = "pipe"
         THEN [w EXCEPT !.isW = TRUE, !.q = SubSeq(@, 1, Len(@) - 1),
                        !.infl = Append(@, item), !.hand = Append(@, item)]
         ELSE [w EXCEPT !.isW = TRUE, !.q = SubSeq(@, 1, Len(@) - 1)]

\* processWriteQueue: the guard, isWriting = true, shift, stdin.write.
processWriteQueue(w) ==
    IF ~CanStart(w) THEN w
    ELSE LET item == Head(w.q) IN
         IF stdin = "pipe"
         THEN [w EXCEPT !.isW = TRUE, !.q = Tail(@),
                        !.infl = Append(@, item), !.hand = Append(@, item)]
         ELSE [w EXCEPT !.isW = TRUE, !.q = Tail(@)]

\* As Push, putting the item at the front of the queue (unshift).
Push_front(w, data, by) ==
    LET item == [data |-> data, by |-> by, n |-> Len(w.hist) + 1] IN
    [w EXCEPT !.q = <<item>> \o @, !.hist = Append(@, item),
              !.prom = Append(@, "pending")]

\* writeQueue.push({data, resolve, reject}) of a new promise.
Push(w, data, by) ==
    LET item == [data |-> data, by |-> by, n |-> Len(w.hist) + 1] IN
    [w EXCEPT !.q = Append(@, item), !.hist = Append(@, item),
              !.prom = Append(@, "pending")]

\* writeToServe: push, then processWriteQueue inside the promise executor; an
\* exception thrown there rejects the promise being constructed.
writeToServe(w, data, by) ==
    LET w1 == Push(w, data, by)
        w2 == processWriteQueue(w1)
    IN  IF WriteThrows(w1) THEN [w2 EXCEPT !.prom[Len(w1.hist)] = "rejected"] ELSE w2

\* As writeCallback, putting an item whose write failed back on the queue.
writeCallback_retry(w, err) ==
    LET item == Head(w.infl)
        w1 == [w EXCEPT !.isW = FALSE, !.infl = Tail(@),
                        !.prom[item.n] = IF err THEN "rejected" ELSE "resolved"]
    IN  IF err THEN writeToServe(w1, item.data, item.by) ELSE processWriteQueue(w1)

\* The callback of stdin.write: the oldest pending write completed (err or not).
writeCallback(w, err) ==
    LET item == Head(w.infl)
        w1 == [w EXCEPT !.isW = FALSE, !.infl = Tail(@),
                        !.prom[item.n] = IF err THEN "rejected" ELSE "resolved"]
    IN  processWriteQueue(w1)

\* ----------------------------------------------------------------- scanning
\* str.match(/"id"\s*:\s*(\d+)/) and parseInt(match[1]): the first numeric
\* "id" in the text, <<>> when there is none (a string id has no digit after
\* the colon).
RECURSIVE matchId(_)
matchId(chunk) ==
    IF chunk = <<>> THEN <<>>
    ELSE IF Head(chunk).idk = "num" THEN <<Head(chunk).idv>>
    ELSE matchId(Tail(chunk))

\* str.match(/"pageId"\s*:\s*"([^"]+)"/): the first pageId in the text.
RECURSIVE pageMatch(_)
pageMatch(chunk) ==
    IF chunk = <<>> THEN <<>>
    ELSE IF Head(chunk).page # NoPage THEN <<Head(chunk).page>>
    ELSE pageMatch(Tail(chunk))

\* str.includes('createPage') && str.includes('"result"')
includesCreated(chunk) ==
    /\ \E i \in 1..Len(chunk) : chunk[i].cp
    /\ \E i \in 1..Len(chunk) : chunk[i].res

\* Set.add on an insertion-ordered Set.
SetAdd(s, x) == IF \E i \in 1..Len(s) : s[i] = x THEN s ELSE Append(s, x)

Elems(s) == {s[i] : i \in 1..Len(s)}

\* ------------------------------------------------------------------ actions
\* startServer: spawn playwriter serve.  stdio[0] is 'ignore', for which
\* child_process leaves serveProcess.stdin null; "pipe" is the stream that
\* processWriteQueue's stdin.write call is written against.
StartServer ==
    /\ serveProcess = "null"
    /\ serveProcess' = "running"
    /\ stdin' \in {"null", "pipe"}
    /\ UNCHANGED <<coolifyVars, reflectorVars, serveExit, writeQueue, isWriting, inflight, handed, history, promise,
                   clients, conn, closed, pages, messageIds, messageIdMap,
                   pageOwnership, clientMessageIds, nextMessageId, listeners,
                   sockOut, signals, outCount, created, recorded>>

\* data.toString().trim(): white space at both ends of the whole event is
\* dropped; what follows the token line stays.
trim(d) == [d EXCEPT !.pad = FALSE]

\* tokenStr !== token, with tokenStr = data.toString().trim()
TokenOK(d) == trim(d) = token

\* server.on('connection') and the socket's first 'data' event: the token
\* check, then forwardClientToServe.
NewClient(c, d) ==
    /\ serveProcess = "running"
    /\ conn[c] = "none"
    /\ IF TokenOK(d)
       THEN /\ conn' = [conn EXCEPT ![c] = "active"]
            /\ clients' = clients \cup {c}
            /\ clientMessageIds' = clientMessageIds \cup {c}
            /\ listeners' = Append(listeners, c)
       ELSE /\ conn' = [conn EXCEPT ![c] = "rejected"]
            /\ UNCHANGED <<clients, clientMessageIds, listeners>>
    /\ UNCHANGED <<coolifyVars, reflectorVars, serveProcess, serveExit, stdin, writeQueue, isWriting, inflight, handed,
                   history, promise, closed, pages, messageIds, messageIdMap,
                   pageOwnership, nextMessageId, sockOut, signals, outCount, created, recorded>>

\* As Readable, a torn-down socket still delivering 'data' events.
Readable_afterClose(c) == conn[c] \in {"active", "closed"}

\* The socket of c emits 'data': it was admitted and has neither ended nor been
\* destroyed (cleanup calls socket.destroy()).
Readable(c) == conn[c] = "active"

SentSoFar == Cardinality({i \in 1..Len(history) : history[i].data[1].method = "request"})

\* socket.on('data') of an admitted client.
ClientData(c, chunk) ==
    /\ Readable(c)
    /\ SentSoFar < MaxSent
    /\ LET m == matchId(chunk) IN
       IF m # <<>>
       THEN /\ messageIds' = [messageIds EXCEPT ![c] = @ \cup {m[1]}]
            /\ messageIdMap' = [messageIdMap EXCEPT ![m[1]] = c]
            /\ recorded' = recorded \cup {<<m[1], c>>}
       ELSE UNCHANGED <<messageIds, messageIdMap, recorded>>
    /\ SetW(writeToServe(W, chunk, c))
    /\ UNCHANGED <<coolifyVars, reflectorVars, serveProcess, serveExit, stdin, clients, conn, closed, pages, pageOwnership,
                   clientMessageIds, nextMessageId, listeners, sockOut, signals,
                   outCount, created>>

\* The completion callback of the write in flight.
WriteDone(err) ==
    /\ inflight # <<>>
    /\ SetW(writeCallback(W, err))
    /\ UNCHANGED <<coolifyVars, reflectorVars, serveProcess, serveExit, stdin, clients, conn, closed, pages, messageIds,
                   messageIdMap, pageOwnership, clientMessageIds, nextMessageId,
                   listeners, sockOut, signals, outCount, created, recorded>>

\* As IsTarget, also taking output nobody is waiting for.
IsTarget_orUnowned(target, c) == target = c \/ target = NoOwner

\* targetClientId === clientId
IsTarget(target, c) == target = c

\* As deleteMessageId, leaving the entry in the table.
deleteMessageId_keep(map, id) == map

\* this.messageIdMap.delete(messageId)
deleteMessageId(map, id) == [map EXCEPT ![id] = NoOwner]

\* The routing part of the state, threaded through the stdout listeners.
R == [map |-> messageIdMap, mids |-> messageIds, out |-> sockOut, pages |-> pages,
      own |-> pageOwnership]

\* outputHandler of client c on one stdout chunk.
outputHandler(c, chunk, r) ==
    IF closed[c] THEN r
    ELSE LET m == matchId(chunk) IN
         IF m = <<>> THEN r
         ELSE LET id == m[1]
                  target == r.map[id]
              IN  IF ~IsTarget(target, c) THEN r
                  ELSE LET r1 == [r EXCEPT !.out[c] = Append(@, chunk),
                                           !.map = deleteMessageId(@, id),
                                           !.mids[c] = @ \ {id}]
                           pm == pageMatch(chunk)
                       IN  IF includesCreated(chunk) /\ pm # <<>>
                           THEN [r1 EXCEPT !.pages[c] = SetAdd(@, pm[1]),
                                           !.own[pm[1]] = c]
                           ELSE r1

\* EventEmitter.emit('data', chunk): every listener, in registration order.
RECURSIVE emitData(_, _, _)
emitData(ls, chunk, r) ==
    IF ls = <<>> THEN r
    ELSE emitData(Tail(ls), chunk, outputHandler(Head(ls), chunk, r))

\* The requests of client c that reached the backend's stdin and carry id.
HandedRequest(c, id) ==
    \E i \in 1..Len(handed) :
        /\ handed[i].by = c
        /\ \E j \in 1..Len(handed[i].data) :
              /\ handed[i].data[j].method = "request"
              /\ handed[i].data[j].idk = "num"
              /\ handed[i].data[j].idv = id

\* Pages the backend reports created in answer to a request it was handed.
CreatedBy(chunk) ==
    {<<chunk[j].page, c>> : j \in 1..Len(chunk), c \in Clients} \cap
    {pc \in Pages \X Clients :
        \E j \in 1..Len(chunk) :
            /\ chunk[j].page = pc[1]
            /\ chunk[j].idk = "num"
            /\ HandedRequest(pc[2], chunk[j].idv)}

\* serveProcess.stdout 'data': the chunk goes to every registered outputHandler.
ServeOutput(chunk) ==
    /\ serveProcess = "running"
    /\ ~serveExit.done
    /\ outCount < MaxOut
    /\ outCount' = outCount + 1
    /\ LET r == emitData(listeners, chunk, R) IN
       /\ messageIdMap' = r.map
       /\ messageIds' = r.mids
       /\ sockOut' = r.out
       /\ pages' = r.pages
       /\ pageOwnership' = r.own
    /\ created' = created \cup CreatedBy(chunk)
    /\ UNCHANGED <<coolifyVars, reflectorVars, serveProcess, serveExit, stdin, writeQueue, isWriting, inflight, handed,
                   history, promise, clients, conn, closed, clientMessageIds,
                   nextMessageId, listeners, signals, recorded>>

\* JSON.stringify({jsonrpc, id, method: 'closePage', params: {pageId}})
closePageCmd(id, pageId) ==
    <<[idk |-> "num", idv |-> id, method |-> "closePage", page |-> pageId]>>

RECURSIVE closePages(_, _, _, _)

\* As closePages, stopping after the first page.
closePages_first(w, ps, id, c) ==
    IF ps = <<>> THEN w ELSE writeToServe(w, closePageCmd(id, Head(ps)), c)

\* clientInfo.pages.forEach: one closePage request per page, ids from
\* nextMessageId++.
closePages(w, ps, id, c) ==
    IF ps = <<>> THEN w
    ELSE closePages(writeToServe(w, closePageCmd(id, Head(ps)), c), Tail(ps), id + 1, c)

RECURSIVE Without(_, _)
Without(s, x) ==
    IF s = <<>> THEN <<>>
    ELSE IF Head(s) = x THEN Without(Tail(s), x)
    ELSE <<Head(s)>> \o Without(Tail(s), x)

\* As dropMessageIds, deleting nothing.
dropMessageIds_none(map, ids) == map

\* clientInfo.messageIds.forEach(msgId => this.messageIdMap.delete(msgId))
dropMessageIds(map, ids) == [i \in NumIds |-> IF i \in ids THEN NoOwner ELSE map[i]]

\* As CleanupRuns, without the closed check.
CleanupRuns_always(c) == TRUE

\* As CleanupRuns, for handlers that were never registered.
CleanupRuns_never(c) == FALSE

\* The guard of cleanup: it runs its body only the first time.
CleanupRuns(c) == ~closed[c]

\* cleanup, the handler of both socket 'end' and socket 'error'.
cleanup(c) ==
    IF CleanupRuns(c)
    THEN /\ closed' = [closed EXCEPT ![c] = TRUE]
         /\ clients' = clients \ {c}
         /\ SetW(closePages(W, pages[c], nextMessageId, c))
         /\ nextMessageId' = nextMessageId + Len(pages[c])
         /\ pageOwnership' = [p \in Pages |->
                IF p \in Elems(pages[c]) THEN NoOwner ELSE pageOwnership[p]]
         /\ messageIdMap' = dropMessageIds(messageIdMap, messageIds[c])
         /\ clientMessageIds' = clientMessageIds \ {c}
         /\ listeners' = Without(listeners, c)
         /\ conn' = [conn EXCEPT ![c] = "closed"]
    ELSE UNCHANGED <<closed, clients, writeQueue, isWriting, inflight, handed, history,
                     promise, nextMessageId, pageOwnership, messageIdMap,
                     clientMessageIds, listeners, conn>>

\* socket 'end' or 'error' on an admitted connection: each of the two fires at
\* most once, in either order.
SocketEvent(c) ==
    /\ conn[c] \in {"active", "closed"}
    /\ signals[c] < Cardinality({"end", "error"})
    /\ signals' = [signals EXCEPT ![c] = @ + 1]
    /\ cleanup(c)
    /\ UNCHANGED <<coolifyVars, reflectorVars, serveProcess, serveExit, stdin, pages, messageIds, sockOut, outCount, created,
                   recorded>>

Next ==
    \/ StartServer
    \/ \E c \in Clients, d \in FirstData : NewClient(c, d)
    \/ \E c \in Clients, chunk \in ClientChunks : ClientData(c, chunk)
    \/ \E err \in BOOLEAN : WriteDone(err)
    \/ \E chunk \in ServeChunks : ServeOutput(chunk)
    \/ \E c \in Clients : SocketEvent(c)

Spec == Init /\ [][Next]_vars

\* The serve child process exits (or its streams fail).  startServer registers
\* no 'exit', 'close' or 'error' handler on it and nothing else observes it:
\* this.serveProcess keeps the ChildProcess object and no relay state changes.
ServeExit ==
    /\ serveProcess = "running"
    /\ ~serveExit.done
    /\ serveExit' = [done |-> TRUE, active |-> clients]
    /\ UNCHANGED <<coolifyVars, reflectorVars, serveProcess, stdin, writeQueue, isWriting, inflight, handed,
                   history, promise, clients, conn, closed, pages, messageIds,
                   messageIdMap, pageOwnership, clientMessageIds, nextMessageId,
                   listeners, sockOut, signals, outCount, created, recorded>>

NextExit == Next \/ ServeExit

\* The relay with a backend that may exit.  Fairness: a write handed to the
\* stream gets its callback; what clients and the backend do is up to them.
FairSpec == Init /\ [][NextExit]_vars /\ WF_vars(\E err \in BOOLEAN : WriteDone(err))

TypeOK ==
    /\ serveProcess \in {"null", "running"}
    /\ isWriting \in BOOLEAN
    /\ clients \subseteq Clients
    /\ \A c \in Clients : conn[c] \in {"none", "rejected", "active", "closed"}

\* ---------------------------------------------------------------- reflector
\* Map.set and Map.delete on a map kept as a function.
\* As MapSet, keeping the value of a key that is already present.
MapSet_keep(map, k, v) ==
    [x \in DOMAIN map \cup {k} |-> IF x \in DOMAIN map THEN map[x] ELSE v]

MapSet(map, k, v) == [x \in DOMAIN map \cup {k} |-> IF x = k THEN v ELSE map[x]]

MapDelete(map, k) == [x \in DOMAIN map \ {k} |-> map[x]]

\* crypto.timingSafeEqual on two buffers: a RangeError when their lengths differ.
timingSafeEqual(a, b) ==
    IF a.len # b.len THEN "throw" ELSE IF a = b THEN "true" ELSE "false"

\* validateToken(token, subdomain)
validateToken(tok, subdomain) ==
    IF tok = NoToken THEN "false"
    ELSE timingSafeEqual(tok, expectedToken(subdomain))

\* ws.send(...) on the socket of c: it reaches the peer while the socket is open.
wsSend(rcv, c, entry) ==
    IF readyState[c] = "open" THEN [rcv EXCEPT ![c] = Append(@, entry)] ELSE rcv

\* As Gate, letting every connection through.
Gate_open(c) == TRUE

\* if (!connection.authenticated) { ... return }
Gate(c) == ClientConnections[c].authenticated

\* As IsRecipient, without the authenticated test.
IsRecipient_anyone(d, c) ==
    d # c /\ ClientConnections[d].subdomain = ClientConnections[c].subdomain

\* client.id !== clientId && client.subdomain === subdomain && client.authenticated
IsRecipient(d, c) ==
    /\ d # c
    /\ ClientConnections[d].subdomain = ClientConnections[c].subdomain
    /\ ClientConnections[d].authenticated

\* for (const [, client] of ClientConnections) ... client.ws.send(message)
relayLoop(c, m) ==
    [d \in Conns |->
        IF d \in DOMAIN ClientConnections /\ IsRecipient(d, c) /\ readyState[d] = "open"
        THEN Append(received[d], [from |-> c, msg |-> m])
        ELSE received[d]]

\* /connect: the upgrade callback.
Connect(c, subdomain) ==
    /\ readyState[c] = "none"
    /\ readyState' = [readyState EXCEPT ![c] = "open"]
    /\ ClientConnections' =
          MapSet(ClientConnections, c, [subdomain |-> subdomain, authenticated |-> FALSE])
    /\ SubdomainToConnection' = MapSet(SubdomainToConnection, subdomain, c)
    /\ UNCHANGED <<coolifyVars, relayVars, RemoteClients, received, msgCount, revalidationFailed,
                   envAuthSecret, issued>>

\* ws.on('message'): a socket delivers frames while open, and may still
\* deliver them after the server's ws.close() until the closing handshake ends.
OnMessage(c, m) ==
    /\ readyState[c] \in {"open", "closing"}
    /\ msgCount < MaxMessages
    /\ msgCount' = msgCount + 1
    /\ LET subdomain == ClientConnections[c].subdomain IN
       IF m.type = "raw"
       THEN UNCHANGED <<ClientConnections, readyState, received>>
       ELSE IF m.type = "auth" /\ m.token # NoToken
       THEN LET v == validateToken(m.token, subdomain) IN
            IF v = "true"
            THEN /\ ClientConnections' = [ClientConnections EXCEPT ![c].authenticated = TRUE]
                 /\ received' = wsSend(received, c, Reply("auth success"))
                 /\ UNCHANGED readyState
            ELSE IF v = "false"
            THEN /\ received' = wsSend(received, c, Reply("auth failure"))
                 /\ readyState' = [readyState EXCEPT ![c] = "closing"]
                 /\ UNCHANGED ClientConnections
            ELSE UNCHANGED <<ClientConnections, readyState, received>>
       ELSE IF ~Gate(c)
       THEN /\ received' = wsSend(received, c, Reply("Not authenticated"))
            /\ UNCHANGED <<ClientConnections, readyState>>
       ELSE IF m.type = "ping"
       THEN /\ received' = wsSend(received, c, Reply("pong"))
            /\ UNCHANGED <<ClientConnections, readyState>>
       ELSE /\ received' = relayLoop(c, m)
            /\ UNCHANGED <<ClientConnections, readyState>>
    /\ revalidationFailed' =
          IF /\ m.type = "auth" /\ m.token # NoToken
             /\ ClientConnections[c].authenticated
             /\ validateToken(m.token, ClientConnections[c].subdomain) # "true"
          THEN revalidationFailed \cup {c}
          ELSE revalidationFailed
    /\ UNCHANGED <<coolifyVars, relayVars, SubdomainToConnection, RemoteClients, envAuthSecret, issued>>

\* ws.on('close')
OnClose(c) ==
    /\ readyState[c] \in {"open", "closing"}
    /\ readyState' = [readyState EXCEPT ![c] = "closed"]
    /\ SubdomainToConnection' =
          MapDelete(SubdomainToConnection, ClientConnections[c].subdomain)
    /\ ClientConnections' = MapDelete(ClientConnections, c)
    /\ RemoteClients' = MapDelete(RemoteClients, c)
    /\ UNCHANGED <<coolifyVars, relayVars, received, msgCount, revalidationFailed, envAuthSecret, issued>>

\* GET /register with a token in the query: TokenSchema rejects a token
\* shorter than 32 characters before validateToken is reached.
Register(id, subdomain, tok) ==
    /\ id \notin DOMAIN RemoteClients
    /\ tok # NoToken
    /\ tok.len >= 32
    /\ validateToken(tok, subdomain) = "true"
    /\ RemoteClients' = MapSet(RemoteClients, id, subdomain)
    /\ UNCHANGED <<coolifyVars, relayVars, ClientConnections, SubdomainToConnection, readyState,
                   received, msgCount, revalidationFailed, envAuthSecret, issued>>

ReflectorNext ==
    \/ \E c \in Conns, sd \in Subdomains : Connect(c, sd)
    \/ \E c \in Conns, m \in Messages : OnMessage(c, m)
    \/ \E c \in Conns : OnClose(c)
    \/ \E id \in RegIds, sd \in Subdomains, t \in Tokens : Register(id, sd, t)

ReflectorSpec == Init /\ [][ReflectorNext]_vars

\* The environment the process is started in: AUTH_SECRET set or not.
EnvSecrets == {"unset", "k"}

\* const AUTH_SECRET = process.env.AUTH_SECRET || crypto.randomBytes(32).toString('hex')
AUTH_SECRET == IF envAuthSecret = "unset" THEN "random" ELSE envAuthSecret

\* createHash('sha256').update(`${subdomain}:${secret}`).digest('hex'): equal
\* to expectedToken(subdomain) exactly when secret is AUTH_SECRET.
sha256hex(subdomain, secret) ==
    [sub |-> subdomain, secret |-> (secret = AUTH_SECRET), len |-> TokenLength]

\* Module load: the environment is read once.
ReadEnv(v) ==
    /\ envAuthSecret = "unread"
    /\ envAuthSecret' = v
    /\ UNCHANGED <<coolifyVars, relayVars, ClientConnections, SubdomainToConnection, RemoteClients,
                   readyState, received, msgCount, revalidationFailed, issued>>

\* GET /token?subdomain=...: 500 without process.env.AUTH_SECRET, else the digest.
GetToken(subdomain) ==
    /\ envAuthSecret \notin {"unread", "unset"}
    /\ issued' = issued \cup
          {[subdomain |-> subdomain, token |-> sha256hex(subdomain, envAuthSecret)]}
    /\ UNCHANGED <<coolifyVars, relayVars, ClientConnections, SubdomainToConnection, RemoteClients,
                   readyState, received, msgCount, revalidationFailed, envAuthSecret>>

\* The reflector used with the tokens GET /token hands out.
TokenNext ==
    \/ \E v \in EnvSecrets : ReadEnv(v)
    \/ \E sd \in Subdomains : GetToken(sd)
    \/ \E id \in RegIds, sd \in Subdomains, p \in issued :
          envAuthSecret # "unread" /\ Register(id, sd, p.token)
    \/ \E c \in Conns, sd \in Subdomains : envAuthSecret # "unread" /\ Connect(c, sd)
    \/ \E c \in Conns, p \in issued : OnMessage(c, [type |-> "auth", token |-> p.token])
    \/ \E c \in Conns : OnClose(c)

TokenSpec == Init /\ [][TokenNext]_vars

\* ------------------------------------------------------------------ coolify
\* req.on('error', reject): the request ends without a response.
NetworkError == 0

\* res.statusCode of a response, or NetworkError.
Responses == {200, 401, 500, NetworkError}

Tools == {"list_projects", "list_resources", "get_app_status", "set_api_token", "bogus"}

\* Tools that call the Coolify API.
ApiTools == {"list_projects", "list_resources", "get_app_status"}

\* loadToken: config.apiToken of the file, null without it.
loadToken(file) == IF file = "absent" THEN NoApiToken ELSE file

\* The outcome of a tool: the handler's result and the bearer tokens of the
\* requests it sent.
Outcome(isError, text, sent) == [isError |-> isError, text |-> text, sent |-> sent]

\* makeRequest followed by the status checks shared by the API methods.
checked(tok, resp) ==
    IF resp = NetworkError THEN Outcome(TRUE, "network error", <<tok>>)
    ELSE IF resp = 401 THEN Outcome(TRUE, "Unauthorized: Invalid API token", <<tok>>)
    ELSE IF resp # 200 THEN Outcome(TRUE, "API error", <<tok>>)
    ELSE Outcome(FALSE, "result", <<tok>>)

\* if (!this.apiToken) throw new Error('API token not set. ...')
tokenGate(tok) == ~Truthy(tok)

\* listProjects, getAppLogs, getDeployLogs, getDeployments, getAppStatus
listProjects(tok, resp) ==
    IF tokenGate(tok) THEN Outcome(TRUE, "API token not set", <<>>)
    ELSE checked(tok, resp)

\* listResources: the project request is checked; the applications request
\* is used when it returns 200 and ignored otherwise.
listResources(tok, resp, appsResp) ==
    IF tokenGate(tok) THEN Outcome(TRUE, "API token not set", <<>>)
    ELSE LET first == checked(tok, resp) IN
         IF first.isError THEN first
         ELSE IF appsResp = NetworkError THEN Outcome(TRUE, "network error", <<tok, tok>>)
         ELSE Outcome(FALSE, "result", <<tok, tok>>)

\* The switch of the CallTool handler inside its try/catch; args.x on a call
\* without arguments is a TypeError, which the catch turns into a result.
toolOutcome(name, hasArgs, resp, appsResp) ==
    IF name = "list_projects" THEN listProjects(apiToken, resp)
    ELSE IF name \notin Tools \ {"bogus"} THEN Outcome(TRUE, "Unknown tool", <<>>)
    ELSE IF ~hasArgs THEN Outcome(TRUE, "TypeError", <<>>)
    ELSE IF name = "list_resources" THEN listResources(apiToken, resp, appsResp)
    ELSE IF name = "get_app_status" THEN listProjects(apiToken, resp)
    ELSE Outcome(FALSE, "API token saved successfully", <<>>)

\* saveToken: writeFileSync may fail; the error is logged and swallowed.
saveToken(file, tok, written) == IF written THEN tok ELSE file

\* apiClient.apiToken = args.token
storeToken(old, tok) == tok

\* One CallTool request, from the request to the returned result.
CallTool(name, hasArgs, tok, written, resp, appsResp) ==
    /\ callCount < MaxCalls
    /\ callCount' = callCount + 1
    /\ LET o == toolOutcome(name, hasArgs, resp, appsResp) IN
       /\ lastResult' = [isError |-> o.isError, text |-> o.text]
       /\ requests' = requests \o o.sent
       /\ IF name = "set_api_token" /\ hasArgs
          THEN /\ configFile' = saveToken(configFile, tok, written)
               /\ apiToken' = storeToken(apiToken, tok)
               /\ lastSet' = tok
          ELSE UNCHANGED <<configFile, apiToken, lastSet>>
    /\ UNCHANGED <<relayVars, reflectorVars>>

\* The server process ends and a new one starts: new CoolifyAPIClient().
Restart ==
    /\ apiToken' = loadToken(configFile)
    /\ lastResult' = NoResult
    /\ UNCHANGED <<relayVars, reflectorVars, configFile, requests, lastSet, callCount>>

CoolifyNext ==
    \/ \E name \in Tools, hasArgs \in BOOLEAN, tok \in ApiTokens, written \in BOOLEAN,
          resp \in Responses, appsResp \in Responses :
          CallTool(name, hasArgs, tok, written, resp, appsResp)
    \/ Restart

CoolifySpec == Init /\ [][CoolifyNext]_vars

\* ------------------------------------------------------------------ claims
RECURSIVE Bytes(_)
\* The bytes of a sequence of queue items, in order.
Bytes(items) == IF items = <<>> THEN <<>> ELSE Head(items).data \o Bytes(Tail(items))

\* What the serve process's stdin has been handed.
backendIn == Bytes(handed)

C2_SingleFlight ==
    /\ Len(inflight) <= 1
    /\ isWriting <=> (Len(inflight) = 1)

\* Item list h holds a request of client c that carries the identifier of m.
RequestIn(h, c, m) ==
    \E i \in 1..Len(h) :
        /\ h[i].by = c
        /\ \E j \in 1..Len(h[i].data) :
              /\ h[i].data[j].method = "request"
              /\ h[i].data[j].idk = m.idk
              /\ h[i].data[j].idv = m.idv

Routable(chunk) ==
    /\ matchId(chunk) # <<>>
    /\ messageIdMap[matchId(chunk)[1]] # NoOwner

\* C4: a backend message (one stdout chunk) whose identifier matches a live
\* entry is written unchanged to the socket of the entry's owner, to no other
\* socket, and the entry is removed in that step; a message whose identifier
\* has no entry (the entry was removed and no request recorded it again) is
\* written to nobody.
C4_RoutedToOwnerOnly ==
    [][\A chunk \in ServeChunks :
          /\ (ServeOutput(chunk) /\ Routable(chunk))
             => LET id == matchId(chunk)[1] IN
                /\ sockOut' = [sockOut EXCEPT ![messageIdMap[id]] = Append(@, chunk)]
                /\ messageIdMap'[id] = NoOwner
          /\ (ServeOutput(chunk) /\ matchId(chunk) # <<>> /\ ~Routable(chunk))
             => sockOut' = sockOut]_vars

\* Two responses were emitted while a request was outstanding: the first was
\* written to its owner and took the entry away, the second went to nobody.
C4_Witness ==
    \E c \in Clients :
        /\ outCount = 2
        /\ Len(sockOut[c]) = 1
        /\ \A d \in Clients \ {c} : sockOut[d] = <<>>
        /\ messageIds[c] = {}
        /\ \A i \in NumIds : messageIdMap[i] = NoOwner

\* C5: a backend message (one stdout chunk) with no identifier, or whose
\* identifier matches no live entry, is written to no socket.
C5_UnroutableDropped ==
    [][\A chunk \in ServeChunks :
          (ServeOutput(chunk) /\ ~Routable(chunk)) => sockOut' = sockOut]_vars

\* Output was emitted while two sessions were active and one was waiting for a
\* response, and no socket was written.
C5_Witness ==
    /\ outCount = MaxOut
    /\ \A c \in Clients : conn[c] = "active" /\ sockOut[c] = <<>>
    /\ \E c \in Clients : messageIds[c] # {}

\* C6: every request a client sends with an identifier, numeric or string, in
\* any position of its data event, has its entry {identifier, owner = sender}
\* in the correlation table once the event is handled.
C6_EveryRequestRecorded ==
    [][\A c \in Clients, chunk \in ClientChunks :
          ClientData(c, chunk)
          => \A j \in 1..Len(chunk) :
                /\ chunk[j].idk = "num"
                /\ messageIdMap'[chunk[j].idv] = c]_vars

\* C7: every client message with an identifier that is in the write queue or
\* was dispatched from it had its correlation entry recorded: no payload is
\* queued or dispatched whose entry was not recorded first.
C7_RecordBeforeWrite ==
    \A i \in 1..Len(history) :
        \A j \in 1..Len(history[i].data) :
            LET m == history[i].data[j] IN
            (m.method = "request" /\ m.idk # "none")
            => (m.idk = "num" /\ <<m.idv, history[i].by>> \in recorded)

\* The release requests for page p that session c's teardown enqueued.
ReleasesFor(h, c, p) ==
    {i \in 1..Len(h) :
        /\ h[i].by = c
        /\ h[i].data[1].method = "closePage"
        /\ h[i].data[1].page = p}

\* C8: when the teardown of a session completes, every handle it had recorded
\* is absent from pageOwnership and exactly one closePage request for it has
\* been enqueued.
C8_CleanupCompleteness ==
    [][\A c \in Clients :
          (SocketEvent(c) /\ ~closed[c])
          => \A p \in Elems(pages[c]) :
                /\ pageOwnership'[p] = NoOwner
                /\ Cardinality(ReleasesFor(history', c, p)) = 1]_vars

\* A session that owned two pages was torn down: both are out of the index
\* and two release requests were enqueued.
C8_Witness ==
    \E c \in Clients :
        /\ closed[c]
        /\ Len(pages[c]) = 2
        /\ \A p \in Elems(pages[c]) :
              pageOwnership[p] = NoOwner /\ Cardinality(ReleasesFor(history, c, p)) = 1

C10_IdempotentTeardown ==
    [][\A c \in Clients :
          (SocketEvent(c) /\ closed[c])
          => UNCHANGED <<clients, conn, closed, pages, messageIds, messageIdMap,
                         pageOwnership, clientMessageIds, nextMessageId, listeners,
                         writeQueue, isWriting, inflight, handed, history, promise>>]_vars

\* Both 'end' and 'error' fired on a session that owned a page and had a
\* request pending; one release request was enqueued.
C10_Witness ==
    \E c \in Clients :
        /\ signals[c] = 2
        /\ Len(pages[c]) = 1
        /\ messageIds[c] # {}
        /\ Cardinality(ReleasesFor(history, c, pages[c][1])) = 1

\* The credential of a first event (its first line) is the configured token,
\* byte for byte.
CredentialMatches(d) == d.tok = "good" /\ ~d.pad

\* C11: a connection whose first message carries a credential that is not the
\* configured token byte for byte is closed, is not added to the active
\* sessions, and leaves the correlation table, handle index and write queue
\* as they were.
C11_AuthRejection ==
    [][\A c \in Clients, d \in FirstData :
          (NewClient(c, d) /\ ~CredentialMatches(d))
          => /\ conn'[c] = "rejected"
             /\ c \notin clients'
             /\ UNCHANGED <<messageIdMap, pageOwnership, writeQueue, listeners>>]_vars

\* C12: a connection whose first message carries the configured token is
\* admitted as an active session, and a payload that follows the token in the
\* same data event is enqueued for the backend.
C12_AuthAcceptance ==
    [][\A c \in Clients, d \in FirstData :
          (NewClient(c, d) /\ CredentialMatches(d))
          => /\ conn'[c] = "active"
             /\ c \in clients'
             /\ d.rest => Len(history') = Len(history) + 1]_vars

\* A creation response: one message with a result that carries a page handle.
IsCreation(chunk) == Len(chunk) = 1 /\ chunk[1].res /\ chunk[1].page # NoPage

\* C13: when a creation response is correlated to its owner, the handle is
\* added to the owner's pages, pageOwnership maps it to the owner, the
\* response is written to the owner only and no other session's pages change.
C13_ResourceRecording ==
    [][\A chunk \in ServeChunks :
          (ServeOutput(chunk) /\ IsCreation(chunk) /\ Routable(chunk))
          => LET a == messageIdMap[matchId(chunk)[1]]
                 h == chunk[1].page
             IN  /\ h \in Elems(pages'[a])
                 /\ pageOwnership'[h] = a
                 /\ sockOut' = [sockOut EXCEPT ![a] = Append(@, chunk)]
                 /\ \A b \in Clients \ {a} : pages'[b] = pages[b]]_vars

\* C14: a write that fails rejects the promise of the item being written and
\* no other; the item behind it is dispatched next; and after a failure the
\* queue never holds items while no write is under way.
C14_FailedWriteIsolated ==
    [][/\ WriteDone(TRUE)
          => /\ promise' = [promise EXCEPT ![Head(inflight).n] = "rejected"]
             /\ writeQueue # <<>>
                => /\ handed' = Append(handed, Head(writeQueue))
                   /\ writeQueue' = Tail(writeQueue)
       /\ ( /\ \E n \in 1..Len(promise') : promise'[n] = "rejected"
            /\ writeQueue' # <<>> )
          => inflight' # <<>>]_vars

\* C15: a live correlation entry is removed or changed only by the routing of
\* its response to its owner or by the teardown of its owner (a request that
\* registers the same identifier again makes a new entry); no other event, in
\* particular no other session's teardown, touches it.
C15_EntryLifetime ==
    [][\A i \in NumIds :
          (messageIdMap[i] # NoOwner /\ messageIdMap'[i] # messageIdMap[i])
          => LET c == messageIdMap[i] IN
             \/ \E chunk \in ServeChunks :
                   /\ ServeOutput(chunk)
                   /\ matchId(chunk) = <<i>>
                   /\ sockOut'[c] = Append(sockOut[c], chunk)
             \/ SocketEvent(c)
             \/ \E d \in Clients, chunk \in ClientChunks :
                   ClientData(d, chunk) /\ matchId(chunk) = <<i>>]_vars

\* C16: once a session's cleanup has run, no correlation entry names that
\* session as owner, in that state and in every later one.
C16_TeardownRemovesEntries ==
    \A c \in Clients : closed[c] => \A i \in NumIds : messageIdMap[i] # c

\* A session was torn down while requests of its own were pending, and the
\* other session's entry is still in the table.
C16_Witness ==
    \E c \in Clients :
        /\ closed[c]
        /\ messageIds[c] # {}
        /\ \A i \in NumIds : messageIdMap[i] # c
        /\ \E i \in NumIds : messageIdMap[i] \in Clients \ {c}

\* C17: once a session's closed flag is true, nothing is written to its socket,
\* no identifier is recorded for it, and no request of it is enqueued.
C17_ClosedSessionSilent ==
    [][\A c \in Clients :
          closed[c]
          => /\ sockOut'[c] = sockOut[c]
             /\ \A i \in NumIds : messageIdMap'[i] = c => messageIdMap[i] = c
             /\ {r \in recorded' : r[2] = c} = {r \in recorded : r[2] = c}
             /\ {n \in 1..Len(history') : history'[n].by = c}
                = {n \in 1..Len(history) : history[n].by = c}]_vars

\* After a session with a pending request was closed, the backend emitted
\* output and the other session sent a request; the closed session's socket
\* got nothing.
C17_Witness ==
    \E c \in Clients :
        /\ closed[c]
        /\ messageIds[c] # {}
        /\ sockOut[c] = <<>>
        /\ outCount > 0
        /\ \E n \in 1..Len(history) :
              /\ history[n].by # c
              /\ \A k \in 1..Len(history) : history[k].by = c => k < n

\* C18: when the backend process exits, every session that is active at that
\* moment is eventually closed.
C18_BackendFatal ==
    \A c \in Clients : (serveExit.done /\ c \in serveExit.active) ~> closed[c]

\* The serializer is not stuck: isWriting is set only while a write is under way.
Draining(isW, infl) == isW => infl # <<>>

\* C19: an error, disconnect or failed write of one client does not close
\* another client's session, does not take its correlation entries away, and
\* does not stop the write serializer.
C19_ErrorIsolation ==
    [][\A a \in Clients :
          /\ SocketEvent(a)
             => /\ \A b \in Clients \ {a} :
                      /\ closed'[b] = closed[b]
                      /\ conn'[b] = conn[b]
                      /\ b \in clients => b \in clients'
                      /\ \A i \in NumIds : messageIdMap[i] = b => messageIdMap'[i] = b
                /\ Draining(isWriting, inflight) => Draining(isWriting', inflight')
          /\ \A chunk \in ClientChunks :
                ClientData(a, chunk)
                => (Draining(isWriting, inflight) => Draining(isWriting', inflight'))]_vars

\* The items of client c in a sequence of queue items, in order.
RECURSIVE ItemsOf(_, _)
ItemsOf(items, c) ==
    IF items = <<>> THEN <<>>
    ELSE IF Head(items).by = c THEN <<Head(items)>> \o ItemsOf(Tail(items), c)
    ELSE ItemsOf(Tail(items), c)

C21_WholeMessages ==
    \A c \in Clients :
        \A k \in 1..Len(sockOut[c]) :
            LET w == sockOut[c][k] IN
            /\ Len(w) = 1
            /\ w[1].idk = "num"
            /\ <<w[1].idv, c>> \in recorded

\* The last client whose data event registered identifier i, if any.
LastRegistrant(i) ==
    LET regs == {n \in 1..Len(history) :
                    history[n].data[1].method = "request" /\ matchId(history[n].data) = <<i>>}
    IN  IF regs = {} THEN NoOwner
        ELSE history[CHOOSE n \in regs : \A m \in regs : m <= n].by

C23_HandleOwnership ==
    \A p \in Pages :
        pageOwnership[p] # NoOwner
        => LET o == pageOwnership[p] IN
           /\ o \in clients
           /\ p \in Elems(pages[o])
           /\ \A d \in Clients \ {o} : ~closed[d] => p \notin Elems(pages[d])

C26_TeardownTrigger ==
    [][\A c \in Clients :
          /\ (SocketEvent(c) /\ conn[c] = "active")
             => /\ conn'[c] = "closed"
                /\ closed'[c]
                /\ c \notin clients'
                /\ \A k \in 1..Len(listeners') : listeners'[k] # c
          /\ conn[c] = "closed" => (conn'[c] = "closed" /\ closed'[c])]_vars

\* One session was closed by a single socket event and stayed closed while the
\* other session, still active, went on sending.
C26_Witness ==
    \E c \in Clients, d \in Clients :
        /\ conn[c] = "closed" /\ closed[c] /\ signals[c] = 1
        /\ conn[d] = "active"
        /\ \E n \in 1..Len(history) :
              /\ history[n].by = d
              /\ \A k \in 1..Len(history) : history[k].by = c => k < n

\* C27: a parsed message that is neither auth nor ping, received from an
\* authenticated connection of subdomain S, reaches exactly the other
\* authenticated connections registered on S whose socket is open: not the
\* sender, no unauthenticated connection, no connection of another subdomain.
Recipients(c) ==
    {d \in DOMAIN ClientConnections \ {c} :
        /\ ClientConnections[d].subdomain = ClientConnections[c].subdomain
        /\ ClientConnections[d].authenticated
        /\ readyState[d] = "open"}

C27_BroadcastRecipients ==
    [][\A c \in Conns, m \in Messages :
        (OnMessage(c, m) /\ m.type = "data" /\ ClientConnections[c].authenticated)
        => \A d \in Conns :
             received'[d] = IF d \in Recipients(c)
                            THEN Append(received[d], [from |-> c, msg |-> m])
                            ELSE received[d]]_vars

FromSender(d, c) == {k \in 1..Len(received[d]) : received[d][k].from = c}

\* One connection got a message of another while a third, open one did not:
\* it is unauthenticated on the same subdomain or authenticated on another.
C27_Witness ==
    \E c, d, e \in DOMAIN ClientConnections :
        /\ c # d /\ c # e /\ d # e
        /\ FromSender(d, c) # {}
        /\ FromSender(e, c) = {}
        /\ FromSender(c, c) = {}
        /\ readyState[e] = "open"
        /\ \/ /\ ClientConnections[e].subdomain = ClientConnections[c].subdomain
              /\ ~ClientConnections[e].authenticated
           \/ /\ ClientConnections[e].subdomain # ClientConnections[c].subdomain
              /\ ClientConnections[e].authenticated

\* C28: a message other than a credential message (an auth message with a
\* token), sent on a connection that has not passed validation, is forwarded
\* to no other connection and changes no other connection's state.
IsCredentialMessage(m) == m.type = "auth" /\ m.token # NoToken

C28_BroadcastGate ==
    [][\A c \in Conns, m \in Messages :
        (OnMessage(c, m) /\ ~IsCredentialMessage(m) /\ ~ClientConnections[c].authenticated)
        => /\ \A d \in Conns \ {c} :
                received'[d] = received[d] /\ readyState'[d] = readyState[d]
           /\ ClientConnections' = ClientConnections
           /\ SubdomainToConnection' = SubdomainToConnection
           /\ RemoteClients' = RemoteClients]_vars

\* An unauthenticated connection was answered 'Not authenticated' while an
\* authenticated, open connection of its subdomain has nothing from it.
C28_Witness ==
    \E c, d \in DOMAIN ClientConnections :
        /\ c # d
        /\ ~ClientConnections[c].authenticated
        /\ \E k \in 1..Len(received[c]) : received[c][k] = Reply("Not authenticated")
        /\ ClientConnections[d].subdomain = ClientConnections[c].subdomain
        /\ ClientConnections[d].authenticated
        /\ readyState[d] = "open"
        /\ FromSender(d, c) = {}

\* C29: an auth message whose credential does not match (whatever its
\* length), or that carries no credential, gets its connection closed by
\* the reflector and does not mark the connection authenticated.
C29_CredentialFailure ==
    [][\A c \in Conns, m \in Messages :
        (/\ OnMessage(c, m)
         /\ m.type = "auth"
         /\ m.token # expectedToken(ClientConnections[c].subdomain))
        => /\ readyState'[c] \in {"closing", "closed"}
           /\ ClientConnections'[c].authenticated = ClientConnections[c].authenticated]_vars

\* C30: once a credential message has failed validation on an authenticated
\* connection, no message is relayed from that connection or to it.
C30_Revalidation ==
    [][\A c \in Conns, m \in Messages :
        OnMessage(c, m)
        => \A d \in Conns \ {c} :
             (c \in revalidationFailed \/ d \in revalidationFailed)
             => received'[d] = received[d]]_vars

\* C31: a subdomain has at most one owner (SubdomainToConnection is a map);
\* a connect to a subdomain makes the new connection its owner, and the
\* previous owner is neither closed nor sent anything.
C31_ChannelOwnership ==
    [][\A c \in Conns, sd \in Subdomains :
        Connect(c, sd)
        => /\ SubdomainToConnection'[sd] = c
           /\ \A s2 \in DOMAIN SubdomainToConnection \ {sd} :
                SubdomainToConnection'[s2] = SubdomainToConnection[s2]
           /\ \A d \in DOMAIN ClientConnections :
                /\ d \in DOMAIN ClientConnections'
                /\ ClientConnections'[d] = ClientConnections[d]
                /\ readyState'[d] = readyState[d]
                /\ received'[d] = received[d]]_vars

\* Two open connections on one subdomain: the owner is the later one, the
\* earlier one is still open and has been sent nothing.
C31_Witness ==
    \E c, d \in DOMAIN ClientConnections :
        /\ c # d
        /\ ClientConnections[c].subdomain = ClientConnections[d].subdomain
        /\ ClientConnections[c].subdomain \in DOMAIN SubdomainToConnection
        /\ SubdomainToConnection[ClientConnections[c].subdomain] = d
        /\ readyState[c] = "open"
        /\ received[c] = <<>>

\* C37: the owner recorded for a subdomain is a connection present in
\* ClientConnections with that subdomain; every subdomain with an open
\* connection has an owner; closing a connection that is not the owner
\* leaves the owner entry as it was.
OwnerIndexConsistent ==
    /\ \A sd \in DOMAIN SubdomainToConnection :
          /\ SubdomainToConnection[sd] \in DOMAIN ClientConnections
          /\ ClientConnections[SubdomainToConnection[sd]].subdomain = sd
    /\ \A c \in DOMAIN ClientConnections :
          readyState[c] = "open" => ClientConnections[c].subdomain \in DOMAIN SubdomainToConnection

C37_OwnerIndexConsistency ==
    [][/\ OwnerIndexConsistent'
       /\ \A c \in Conns :
            (/\ OnClose(c)
             /\ ClientConnections[c].subdomain \in DOMAIN SubdomainToConnection
             /\ SubdomainToConnection[ClientConnections[c].subdomain] # c)
            => SubdomainToConnection' = SubdomainToConnection]_vars

\* C38: when the WebSocket connection of a registered client closes, the
\* entries /register made for its subdomain are removed; when the last
\* connection closes, RemoteClients is left empty.
C38_RemoteClientsCleanup ==
    [][\A c \in Conns :
        OnClose(c)
        => /\ \A id \in DOMAIN RemoteClients' :
                RemoteClients'[id] # ClientConnections[c].subdomain
           /\ (\A d \in Conns \ {c} : readyState[d] \in {"none", "closed"})
                => DOMAIN RemoteClients' = {}]_vars

\* C32: with AUTH_SECRET configured, the token GET /token returns for
\* subdomain s passes validateToken for s, on /register and on a WebSocket
\* auth message, and is rejected for every other subdomain.
C32_TokenRoundTrip ==
    [][/\ \A p \in issued', s2 \in Subdomains :
            /\ p.token.len >= 32
            /\ validateToken(p.token, s2) = IF s2 = p.subdomain THEN "true" ELSE "false"
       /\ \A p \in issued, id \in RegIds, s2 \in Subdomains :
            Register(id, s2, p.token) => s2 = p.subdomain
       /\ \A p \in issued, c \in Conns :
            OnMessage(c, [type |-> "auth", token |-> p.token])
            => IF ClientConnections[c].subdomain = p.subdomain
               THEN /\ ClientConnections'[c].authenticated
                    /\ readyState'[c] = readyState[c]
               ELSE /\ ClientConnections'[c].authenticated = ClientConnections[c].authenticated
                    /\ readyState'[c] = "closing"]_vars

\* A token of /token registered a client and authenticated a connection on
\* its subdomain, and was refused on a connection of the other subdomain.
C32_Witness ==
    \E p \in issued :
        /\ \E id \in DOMAIN RemoteClients : RemoteClients[id] = p.subdomain
        /\ \E c \in DOMAIN ClientConnections :
              /\ ClientConnections[c].subdomain = p.subdomain
              /\ ClientConnections[c].authenticated
              /\ readyState[c] = "open"
        /\ \E d \in DOMAIN ClientConnections :
              /\ ClientConnections[d].subdomain # p.subdomain
              /\ ~ClientConnections[d].authenticated
              /\ readyState[d] = "closing"
              /\ received[d] = <<Reply("auth failure")>>
        /\ issued = {p}

\* C34: the write queue makes progress: isWriting is never true with no
\* write outstanding, and the queue is never non-empty, with the backend
\* present, while no write has been started.
C34_WriteQueueProgress ==
    /\ isWriting => inflight # <<>>
    /\ (writeQueue # <<>> /\ serveProcess # "null") => inflight # <<>>

\* C35: a request identifier is in an open session's pending set exactly
\* when the correlation table maps it to that session.
C35_BookkeepingConsistent ==
    \A c \in Clients, i \in NumIds :
        ~closed[c] => (i \in messageIds[c] <=> messageIdMap[i] = c)

\* C36: the identifier of a synthesized closePage request is not live in the
\* correlation table, and the backend's output carrying the identifier of a
\* release request it was handed, while the request of that identifier's
\* owner has not reached it, is delivered to no client.
ReleaseHanded(i) ==
    \E n \in 1..Len(handed) :
        handed[n].data[1].method = "closePage" /\ handed[n].data[1].idv = i

C33_TokenPersistence ==
    [][/\ \A name \in Tools, hasArgs \in BOOLEAN, tok \in ApiTokens, written \in BOOLEAN,
            resp \in Responses, appsResp \in Responses :
            CallTool(name, hasArgs, tok, written, resp, appsResp)
            => /\ (name = "set_api_token" /\ Truthy(tok) /\ ~lastResult'.isError)
                    => loadToken(configFile') = tok
               /\ (name \in ApiTools /\ hasArgs /\ lastSet # "none")
                    => /\ Len(requests') > Len(requests)
                       /\ \A k \in (Len(requests) + 1)..Len(requests') :
                            requests'[k] = lastSet
       /\ (Restart /\ lastSet # "none") => apiToken' = lastSet]_vars

\* C39: while no API token is set, an API tool call returns the
\* 'API token not set' error and sends no request; and whenever the tool is
\* unknown or a request it sent failed (no response, or a status other
\* than 200), the handler returns an isError result.
C39_TokenGateAndErrors ==
    [][\A name \in Tools, hasArgs \in BOOLEAN, tok \in ApiTokens, written \in BOOLEAN,
         resp \in Responses, appsResp \in Responses :
         CallTool(name, hasArgs, tok, written, resp, appsResp)
         => LET sentNow == Len(requests') - Len(requests) IN
            /\ (name \in ApiTools /\ hasArgs /\ ~Truthy(apiToken))
                 => /\ lastResult' = [isError |-> TRUE, text |-> "API token not set"]
                    /\ sentNow = 0
            /\ (\/ name \notin ApiTools \cup {"set_api_token"}
                \/ sentNow >= 1 /\ resp # 200
                \/ sentNow >= 2 /\ appsResp # 200)
                 => lastResult'.isError]_vars

====
